---- MODULE Spec2Model ----
(***************************************************************************)
(* Agent-based credit risk model                                           *)
(* (Agent_Based_Credit_Risk_Modeling/agent_based_model_credit_risk.ipynb). *)
(*                                                                         *)
(* The extended model: Lender.calculate_interest_rate, Borrower            *)
(* (construction, calculate_loan_amount, decide_to_pay, step), CreditModel *)
(* (construction with the step-0 snapshot, step, remove_agent) and the     *)
(* reductions of simulation_models over results_df.                        *)
(*                                                                         *)
(* Specifications:                                                         *)
(*   Spec          the run of a constructed CreditModel, use_ai = False;   *)
(*   SpecOracle    the same run with use_ai = True;                        *)
(*   SpecConstruct CreditModel.__init__ pass by pass, a raising Borrower   *)
(*                 included;                                               *)
(*   SpecUnit      single calls of Lender and Borrower functions;          *)
(*   SpecGrid      the two agents of random_agents_in_a_grid_space.ipynb;  *)
(*   SpecGridMove  SpecGrid and single calls of Agent.move with the drawn  *)
(*                 (dx, dy) on record.                                     *)
(*                                                                         *)
(* Numbers.  Python floats are modelled in fixed point:                    *)
(*   - an interest rate is an integer count of 1/10000 (0.04 = 400);       *)
(*   - a monthly rate is the same integer read over 12 * 10000;            *)
(*   - (1 + r)^n is an integer count of 1/PowScale;                        *)
(*   - a loan amount (principal) is in whole USD, as range() yields it;    *)
(*   - monthly_loan and balance are in mills (1/1000 USD);                 *)
(*   - a Balance written to results_df is round(balance, 2): in cents.     *)
(***************************************************************************)
EXTENDS Integers, Sequences, FiniteSets, TLC

\* ------------------------------------------------------------------ bounds

\* num_borrowers and num_months of the run (CreditModel(num_borrowers, num_months, ...)
\* followed by "for i in range(num_months): model.step()").
NumBorrowers == 2
NumMonths == 4

\* The values random.randint(50, 100) is sampled at.
CreditScoreSample == {50, 100}
\* The values of range(50_000, 500_000, 5000) random.choice(valid_loans) is sampled at.
LoanSample == {250000}
\* The value random.choice(self.PROFILES) is sampled at in a run.
ProfileSample == {"unlucky"}
\* The values of prob (miss probability, in percent) the model is run with.
ProbSample == {0, 10, 100}
\* The loan terms (num_months) select_valid_loan_amount is called with on its own.
TermSample == {NumMonths, 3 * NumMonths}

\* ------------------------------------------------------------ fixed point

PowScale == 10^8
RateDen == 12 * 10^4
MillsPerUSD == 10^3
MillsPerCent == MillsPerUSD \div 100
CentsPerUSD == MillsPerUSD \div MillsPerCent

\* floor(a * b / d) and the remainder, for 0 <= a < d, without leaving 32 bits.
RECURSIVE MulDivRem(_, _, _)
MulDivRem(a, b, d) ==
    IF b = 0 THEN <<0, 0>>
    ELSE LET h == MulDivRem(a, b \div 2, d)
             t == 2 * h[2] + (b % 2) * a
         IN  <<2 * h[1] + t \div d, t % d>>

\* floor(a * b / d) for a, b >= 0 and d > 0.
MulDiv(a, b, d) == (a \div d) * b + MulDivRem(a % d, b, d)[1]

\* (1 + r) ** n, r a monthly rate (count of 1/RateDen), as a count of 1/PowScale.
RECURSIVE OnePlusRPow(_, _)
OnePlusRPow(r, n) ==
    IF n = 0 THEN PowScale
    ELSE LET q == OnePlusRPow(r, n - 1) IN q + MulDiv(q, r, RateDen)

\* round(x, 2) of an amount in mills: the amount in cents, ties to even.
Round2(x) ==
    LET q == x \div MillsPerCent
        rem == x % MillsPerCent
    IN  IF rem * 2 > MillsPerCent \/ (rem * 2 = MillsPerCent /\ q % 2 = 1)
        THEN q + 1 ELSE q

RECURSIVE SumSeq(_)
SumSeq(s) == IF s = <<>> THEN 0 ELSE Head(s) + SumSeq(Tail(s))

\* ------------------------------------------------------------------ Lender

\* Mutant: the premium is charged on the credit score itself, not on its
\* distance from 100.
calculate_interest_rate_inverted(credit_score) == 400 + (credit_score * 4)

\* Mutant: the lender charges the premium alone, without the base rate.
calculate_interest_rate_premium(credit_score) == (100 - credit_score) * 4

\* Lender.calculate_interest_rate: 0.04 + ((100 - credit_score) * 0.0004).
calculate_interest_rate(credit_score) == 400 + ((100 - credit_score) * 4)

\* ---------------------------------------------------------------- Borrower

\* denominator = (1 + r) ** n - 1, as a count of 1/PowScale.
denominator(r, n) == OnePlusRPow(r, n) - PowScale

\* numerator / denominator of the annuity formula, in mills:
\*   numerator = p * r * (1 + r) ** n ; denominator = (1 + r) ** n - 1.
AnnuityPayment(p, r, n) ==
    LET pw == OnePlusRPow(r, n)
        numerator == MulDiv(MulDiv(p * MillsPerUSD, r, RateDen), pw, PowScale)
    IN  MulDiv(numerator, PowScale, denominator(r, n))

\* (1 + r) ** -n by repeated squaring, as a count of 1/PowScale.
RECURSIVE DiscountPow(_, _)
DiscountPow(r, n) ==
    IF n = 0 THEN PowScale
    ELSE LET h == DiscountPow(r, n \div 2)
             sq == MulDiv(h, h, PowScale)
         IN  IF n % 2 = 1
             THEN MulDiv(sq, MulDiv(PowScale, RateDen, RateDen + r), PowScale)
             ELSE sq

\* numerator / denominator for a term so long that (1 + r) ** n leaves the
\* range of the fixed point: the same quotient with numerator and denominator
\* divided by (1 + r) ** n, that is p * r / (1 - (1 + r) ** -n).
AnnuityPaymentLong(p, r, n) ==
    MulDiv(MulDiv(p * MillsPerUSD, r, RateDen), PowScale, PowScale - DiscountPow(r, n))

\* (1 + r) ** n is beyond e ** 3: n * r >= 3.
LongTerm(r, n) == n * r >= 3 * RateDen

\* The loan terms (num_months) CreditModel is constructed with: the term of
\* the run, and 200 years, under which no loan amount is valid at the highest
\* interest rate.
ConstructTermSample == {NumMonths, 2400}

\* range(50_000, 500_000, 5000)
LoanRange == {50000 + 5000 * k : k \in 0..89}

\* AnnuityPayment at the sampled inputs, evaluated once (@@ makes the table
\* an explicit function, so a lookup does not evaluate the formula again).
AnnuityTable ==
    [k \in LoanRange \X {calculate_interest_rate(cs) : cs \in CreditScoreSample}
            \X (TermSample \cup ConstructTermSample) |->
        IF LongTerm(k[2], k[3])
        THEN AnnuityPaymentLong(k[1], k[2], k[3])
        ELSE AnnuityPayment(k[1], k[2], k[3])]
    @@ [k \in {} |-> 0]

\* monthly = numerator / denominator, as calculate_loan_amount and
\* select_valid_loan_amount compute it.
MonthlyLoan(p, r, n) ==
    IF <<p, r, n>> \in DOMAIN AnnuityTable
    THEN AnnuityTable[<<p, r, n>>]
    ELSE IF LongTerm(r, n) THEN AnnuityPaymentLong(p, r, n) ELSE AnnuityPayment(p, r, n)

\* Mutant: total_loan is the yearly amount, monthly_loan * 12, whatever the term.
calculate_loan_amount_yearly(a) ==
    LET monthly_loan == MonthlyLoan(a.loan_amount, a.monthly_rate, a.num_months)
        total_loan == monthly_loan * 12
    IN  <<monthly_loan, total_loan, a.interest_rate, a.monthly_rate>>

\* Borrower.calculate_loan_amount: [monthly_loan, total_loan, interest_rate, r].
calculate_loan_amount(a) ==
    LET monthly_loan == MonthlyLoan(a.loan_amount, a.monthly_rate, a.num_months)
        total_loan == monthly_loan * a.num_months
    IN  <<monthly_loan, total_loan, a.interest_rate, a.monthly_rate>>

max_total_payment == 500000

\* total = monthly * n; total <= max_total: for integers the same as
\* monthly <= max_total / n rounded down, which stays within 32 bits.
within_cap(monthly, n, max_total) == monthly <= (max_total * MillsPerUSD) \div n

\* Borrower.select_valid_loan_amount: the list valid_loans, for the default
\* max_total_payment.
valid_loans(n, r) ==
    {p \in LoanRange : within_cap(MonthlyLoan(p, r, n), n, max_total_payment)}

\* Mutant: with no valid amount the smallest candidate is returned.
select_valid_loan_amount_smallest(n, r, max_total) ==
    LET valid == {p \in LoanRange : within_cap(MonthlyLoan(p, r, n), n, max_total)}
    IN  IF valid = {}
        THEN {[raised |-> FALSE, value |-> 50000]}
        ELSE {[raised |-> FALSE, value |-> p] : p \in valid}

\* Borrower.select_valid_loan_amount(max_total_payment): what the call can
\* do: return any element of valid_loans (random.choice), or raise ValueError
\* ("No valid loan amount under the total payment cap.") when the list is empty.
select_valid_loan_amount(n, r, max_total) ==
    LET valid == {p \in LoanRange : within_cap(MonthlyLoan(p, r, n), n, max_total)}
    IN  IF valid = {}
        THEN {[raised |-> TRUE, value |-> 0]}
        ELSE {[raised |-> FALSE, value |-> p] : p \in valid}

\* round(a / b) for a >= 0 and b > 0, ties to even.
RoundDiv(a, b) ==
    LET q == a \div b
        rem == a % b
    IN  IF rem * 2 > b \/ (rem * 2 = b /\ q % 2 = 1) THEN q + 1 ELSE q

\* Mutant: the list holds at least one miss, whatever p.
probability_of_payment_onemiss(p) ==
    LET length == 20
        zeros == IF (p * length) \div 100 = 0 THEN 1 ELSE (p * length) \div 100
    IN  [i \in 1..length |-> IF i <= zeros THEN 0 ELSE 1]

\* Mutant: the number of misses is round(p * length) instead of int(p * length).
probability_of_payment_round(p) ==
    LET length == 20
        zeros == RoundDiv(p * length, 100)
    IN  [i \in 1..length |-> IF i <= zeros THEN 0 ELSE 1]

\* Borrower.probability_of_payment(p, length = 20): [0] * int(p * length) +
\* [1] * (length - int(p * length)); p is given in percent.  The shuffle only
\* permutes the list, and random.choice reads one element of it.
probability_of_payment(p) ==
    LET length == 20
        zeros == (p * length) \div 100
    IN  [i \in 1..length |-> IF i <= zeros THEN 0 ELSE 1]

\* Borrower.PROFILES
PROFILES == {"impulsive", "disciplined", "unlucky"}

\* Borrower.__init__ for the drawn credit_score, profile and loan_amount.
NewBorrower(unique_id, num_months, prob, use_ai, credit_score, profile, loan_amount) ==
    LET interest_rate == calculate_interest_rate(credit_score)
        base == [unique_id |-> unique_id,
                 num_months |-> num_months,
                 credit_score |-> credit_score,
                 interest_rate |-> interest_rate,
                 monthly_rate |-> interest_rate,
                 loan_amount |-> loan_amount]
        loan_info == calculate_loan_amount(base)
    IN  [unique_id |-> unique_id,
         num_months |-> num_months,
         use_ai |-> use_ai,
         credit_score |-> credit_score,
         profile |-> profile,
         interest_rate |-> interest_rate,
         monthly_rate |-> interest_rate,
         loan_amount |-> loan_amount,
         monthly_loan |-> loan_info[1],
         balance |-> loan_info[2],
         payed_off |-> FALSE,
         time_to_repay |-> num_months,
         defaulted |-> <<>>,
         removed |-> 0,
         prob |-> probability_of_payment(prob)]

\* ------------------------------------------------------ the oracle's text
\* A message content is a sequence of characters.

PAY == <<"p", "a", "y">>
Whitespace == {" ", "\n"}

\* str.strip(): without its leading and trailing whitespace.
RECURSIVE LStrip(_)
LStrip(t) == IF t # <<>> /\ Head(t) \in Whitespace THEN LStrip(Tail(t)) ELSE t

RECURSIVE RStrip(_)
RStrip(t) ==
    IF t # <<>> /\ t[Len(t)] \in Whitespace THEN RStrip(SubSeq(t, 1, Len(t) - 1)) ELSE t

strip(t) == RStrip(LStrip(t))

\* str.lower(), on the characters the texts are made of.
lower_char(c) ==
    CASE c = "P" -> "p"
      [] c = "A" -> "a"
      [] c = "Y" -> "y"
      [] c = "N" -> "n"
      [] c = "O" -> "o"
      [] OTHER -> c

lower(t) == [i \in 1..Len(t) |-> lower_char(t[i])]

\* sub in t
contains(t, sub) ==
    \E i \in 1..(Len(t) - Len(sub) + 1) : SubSeq(t, i, i + Len(sub) - 1) = sub

\* Mutant: the content is compared as it came, without lower().
interpret_content_cased(text) == contains(strip(text), PAY)

\* content = response.choices[0].message.content.strip().lower();
\* return "pay" in content
interpret_content(text) == contains(lower(strip(text)), PAY)

\* The message contents the oracle is sampled at in a run.
OracleTextSample == {<<"P", "a", "y">>, <<"n", "o">>}

\* Mutant: when the oracle call raises, the borrower is taken to have missed.
decide_to_pay_failmiss(a) ==
    IF a.use_ai
    THEN {[pay |-> interpret_content(t), calls |-> 1, raised |-> FALSE, content |-> t] :
              t \in OracleTextSample}
         \cup {[pay |-> FALSE, calls |-> 1, raised |-> TRUE, content |-> <<>>]}
    ELSE {[pay |-> a.prob[i] = 1, calls |-> 0, raised |-> FALSE, content |-> <<>>] :
              i \in DOMAIN a.prob}

\* Borrower.decide_to_pay: the decisions it can return, each with what the
\* call did: how many times client.chat.completions.create was called, whether
\* the try block raised, and the message content of a completion it returned.
\*   use_ai, the call returns: "pay" in content;
\*   use_ai, the try block raises: random.choice(self.prob) == 1;
\*   not use_ai: random.choice(self.prob) == 1.
decide_to_pay(a) ==
    IF a.use_ai
    THEN {[pay |-> interpret_content(t), calls |-> 1, raised |-> FALSE, content |-> t] :
              t \in OracleTextSample}
         \cup {[pay |-> a.prob[i] = 1, calls |-> 1, raised |-> TRUE, content |-> <<>>] :
                  i \in DOMAIN a.prob}
    ELSE {[pay |-> a.prob[i] = 1, calls |-> 0, raised |-> FALSE, content |-> <<>>] :
              i \in DOMAIN a.prob}

\* Mutant: the payment is taken from the stored self.monthly_loan (which an
\* earlier catch-up payment has left multiplied) instead of being recomputed.
step_pay_stored(a) ==
    LET missed == SumSeq(a.defaulted)
        multiplier == missed + 1
        monthly_loan == a.monthly_loan * multiplier
    IN  [a EXCEPT !.monthly_loan = monthly_loan,
                  !.balance = a.balance - monthly_loan,
                  !.defaulted = <<>>,
                  !.payed_off = TRUE,
                  !.time_to_repay = a.time_to_repay - 1]

\* Mutant: the catch-up multiplier counts the current month twice.
step_pay_overcharge(a) ==
    LET missed == SumSeq(a.defaulted)
        multiplier == missed + 2
        monthly_loan == calculate_loan_amount(a)[1] * multiplier
    IN  [a EXCEPT !.monthly_loan = monthly_loan,
                  !.balance = a.balance - monthly_loan,
                  !.defaulted = <<>>,
                  !.payed_off = TRUE,
                  !.time_to_repay = a.time_to_repay - 1]

\* Mutant: a payment after misses pays the current instalment only, and the
\* missed ones are forgotten.
step_pay_single(a) ==
    LET monthly_loan == calculate_loan_amount(a)[1]
    IN  [a EXCEPT !.monthly_loan = monthly_loan,
                  !.balance = a.balance - monthly_loan,
                  !.defaulted = <<>>,
                  !.payed_off = TRUE,
                  !.time_to_repay = a.time_to_repay - 1]

\* Mutant: a catch-up payment takes off time_to_repay every month it pays for.
step_pay_months(a) ==
    LET missed == SumSeq(a.defaulted)
        multiplier == missed + 1
        monthly_loan == calculate_loan_amount(a)[1] * multiplier
    IN  [a EXCEPT !.monthly_loan = monthly_loan,
                  !.balance = a.balance - monthly_loan,
                  !.defaulted = <<>>,
                  !.payed_off = TRUE,
                  !.time_to_repay = a.time_to_repay - multiplier]

\* Mutant: a payment improves the borrower's credit score by one point.
step_pay_rescored(a) ==
    LET missed == SumSeq(a.defaulted)
        multiplier == missed + 1
        monthly_loan == calculate_loan_amount(a)[1] * multiplier
    IN  [a EXCEPT !.monthly_loan = monthly_loan,
                  !.balance = a.balance - monthly_loan,
                  !.defaulted = <<>>,
                  !.payed_off = TRUE,
                  !.time_to_repay = a.time_to_repay - 1,
                  !.credit_score = a.credit_score + 1]

\* Borrower.step, branch payment == 1.
step_pay(a) ==
    LET missed == SumSeq(a.defaulted)
        multiplier == missed + 1
        monthly_loan == calculate_loan_amount(a)[1] * multiplier
    IN  [a EXCEPT !.monthly_loan = monthly_loan,
                  !.balance = a.balance - monthly_loan,
                  !.defaulted = <<>>,
                  !.payed_off = TRUE,
                  !.time_to_repay = a.time_to_repay - 1]

\* Mutant: the removal comes with the second consecutive miss.
step_miss_removes_early(a) == ~(SumSeq(Append(a.defaulted, 1)) < 2)

\* Mutant: the removal threshold off by one (four consecutive misses).
step_miss_removes_late(a) == ~(SumSeq(Append(a.defaulted, 1)) < 4)

\* Borrower.step, branch payment == 0: whether the else-branch (removal) is taken.
step_miss_removes(a) == ~(SumSeq(Append(a.defaulted, 1)) < 3)

\* Mutant: a miss that does not default forgets that the month has elapsed.
step_miss_notime(a) ==
    LET defaulted == Append(a.defaulted, 1)
    IN  IF ~step_miss_removes(a)
        THEN [a EXCEPT !.defaulted = defaulted,
                       !.payed_off = FALSE]
        ELSE [a EXCEPT !.defaulted = defaulted,
                       !.removed = 1]

\* Mutant: a miss adds the missed instalment to the balance as a late fee.
step_miss_fee(a) ==
    LET defaulted == Append(a.defaulted, 1)
    IN  IF ~step_miss_removes(a)
        THEN [a EXCEPT !.defaulted = defaulted,
                       !.balance = a.balance + calculate_loan_amount(a)[1],
                       !.payed_off = FALSE,
                       !.time_to_repay = a.time_to_repay - 1]
        ELSE [a EXCEPT !.defaulted = defaulted,
                       !.removed = 1]

\* Mutant: the month elapses on the defaulting miss as on any other miss.
step_miss_elapses(a) ==
    LET defaulted == Append(a.defaulted, 1)
    IN  IF ~step_miss_removes(a)
        THEN [a EXCEPT !.defaulted = defaulted,
                       !.payed_off = FALSE,
                       !.time_to_repay = a.time_to_repay - 1]
        ELSE [a EXCEPT !.defaulted = defaulted,
                       !.time_to_repay = a.time_to_repay - 1,
                       !.removed = 1]

\* Borrower.step, branch payment == 0.
step_miss(a) ==
    LET defaulted == Append(a.defaulted, 1)
    IN  IF ~step_miss_removes(a)
        THEN [a EXCEPT !.defaulted = defaulted,
                       !.payed_off = FALSE,
                       !.time_to_repay = a.time_to_repay - 1]
        ELSE [a EXCEPT !.defaulted = defaulted,
                       !.removed = 1]

\* ------------------------------------------------------------- CreditModel

VARIABLES
    prob,          \* CreditModel.prob: the miss probability, in percent
    agents,        \* the Borrower objects, by unique_id (they outlive their removal)
    schedule,      \* RandomActivation: the scheduled unique_ids, in insertion order
    step_number,   \* CreditModel.step_number
    results_df,    \* CreditModel.results_df: the rows, in append order
    pc,            \* "idle": between two model.step() calls; "stepping": inside schedule.step()
    buffer,        \* schedule.step(): the shuffled keys not yet activated
    activations,   \* history: per borrower, the Borrower.step() calls made on it
    use_ai,        \* CreditModel.use_ai
    decision,      \* history: what the last decide_to_pay call did
    tab_borrowers, \* the module-level pivot table: rows per Step of the module-level run
    unit,          \* a single function call made outside a run: its inputs and result
    grid           \* the Model object of random_agents_in_a_grid_space.ipynb

vars == <<prob, agents, schedule, step_number, results_df, pc, buffer, activations,
          use_ai, decision, tab_borrowers, unit, grid>>

\* No decide_to_pay call was made yet; no call outside a run is modelled.
NoDecision == [calls |-> 0, raised |-> FALSE, content |-> <<>>]
NoUnit == [op |-> "none"]
\* No grid model exists.
NoGrid == [width |-> 0]

\* The pivot table of the module-level run (tab_borrowers, computed before
\* simulation_models is defined), sampled at a run of NumBorrowers borrowers
\* over NumMonths steps in which no borrower defaulted.
TabBorrowersSample == {[k \in 1..(NumMonths + 1) |-> NumBorrowers]}

Ids == 0..(NumBorrowers - 1)

\* schedule.agents
ScheduledSet == {schedule[i] : i \in DOMAIN schedule}

\* Mutant: remove_agent forgets to take the agent off the schedule.
remove_agent_noop(sched, id) == sched

\* Mutant: the removal takes the last scheduled agent off, whichever it is.
remove_agent_last(sched, id) == SubSeq(sched, 1, Len(sched) - 1)

\* schedule.remove(agent)
remove_agent(sched, id) == SelectSeq(sched, LAMBDA k : k # id)

\* Mutant: the shuffled buffer loses one of the scheduled keys.
Shuffles_drop(sched) ==
    LET keys == {sched[i] : i \in DOMAIN sched}
        m == IF Len(sched) = 0 THEN 0 ELSE Len(sched) - 1
    IN  {s \in [1..m -> keys] : \A i, j \in 1..m : i # j => s[i] # s[j]}

\* The orders random.shuffle can give the keys of the schedule.
Shuffles(sched) ==
    {s \in [1..Len(sched) -> ScheduledSet] :
        \A i, j \in 1..Len(sched) : i # j => s[i] # s[j]}

\* The row CreditModel.__init__ and CreditModel.step write for one agent.
new_row(a, step) ==
    [Borrower |-> a.unique_id,
     Step |-> step,
     Principle |-> a.loan_amount,
     Credit_Score |-> a.credit_score,
     Interest_Rate |-> calculate_loan_amount(a)[3],
     Balance |-> Round2(a.balance),
     Payed_Off |-> a.payed_off]

\* Mutant: the snapshot loops over every borrower created, scheduled or not.
Snapshot_all(sched, ags, step) ==
    [i \in 1..Cardinality(DOMAIN ags) |-> new_row(ags[i - 1], step)]

\* "for agent in self.schedule.agents: ... pd.concat(...)": one row per scheduled agent.
Snapshot(sched, ags, step) == [i \in 1..Len(sched) |-> new_row(ags[sched[i]], step)]

\* CreditModel.__init__ has returned: the borrowers, the schedule and the
\* step-0 rows, for a prob of probs, the given use_ai and credit scores drawn
\* from scores. The borrowers are independent draws of one loop, so a
\* portfolio is sampled once per multiset of scores, listed in non-decreasing
\* order of unique_id.
Constructed(probs, ai, scores) ==
    /\ prob \in probs
    /\ use_ai = ai
    /\ \E cs \in [Ids -> scores] :
       \E la \in [Ids -> LoanSample] :
          /\ \A i, j \in Ids : i < j => cs[i] <= cs[j]
          /\ \A i \in Ids :
                la[i] \in valid_loans(NumMonths, calculate_interest_rate(cs[i]))
          /\ \E pr \in [Ids -> ProfileSample] :
                agents = [i \in Ids |->
                    NewBorrower(i, NumMonths, prob, use_ai, cs[i], pr[i], la[i])]
    /\ schedule = [i \in 1..NumBorrowers |-> i - 1]
    /\ step_number = 0
    /\ results_df = Snapshot(schedule, agents, step_number)
    /\ pc = "idle"
    /\ buffer = <<>>
    /\ activations = [i \in Ids |-> <<>>]
    /\ decision = NoDecision
    /\ tab_borrowers \in TabBorrowersSample
    /\ unit = NoUnit
    /\ grid = NoGrid

\* The state after CreditModel(num_borrowers, num_months, prob, use_ai = False).
Init == Constructed(ProbSample, FALSE, CreditScoreSample)

\* CreditModel.step, up to the shuffle of schedule.step(); called by the run loop
\* "for i in range(num_months)".
StepBegin ==
    /\ pc = "idle"
    /\ step_number < NumMonths
    /\ step_number' = step_number + 1
    /\ buffer' \in Shuffles(schedule)
    /\ pc' = "stepping"
    /\ UNCHANGED <<prob, agents, schedule, results_df, activations>>
    /\ UNCHANGED <<use_ai, decision, tab_borrowers, unit, grid>>

\* schedule.step(): the next agent of the shuffled buffer runs Borrower.step().
BorrowerStep ==
    /\ pc = "stepping"
    /\ buffer # <<>>
    /\ LET id == Head(buffer)
           a == agents[id]
       IN  /\ buffer' = Tail(buffer)
           /\ IF id \notin ScheduledSet
              THEN UNCHANGED <<agents, schedule, activations, decision>>
              ELSE \E d \in decide_to_pay(a) :
                     /\ decision' = [calls |-> d.calls, raised |-> d.raised,
                                     content |-> d.content]
                     /\ activations' = [activations EXCEPT ![id] =
                            Append(@, [step |-> step_number, pay |-> d.pay])]
                     /\ IF d.pay
                        THEN /\ agents' = [agents EXCEPT ![id] = step_pay(a)]
                             /\ schedule' = schedule
                        ELSE /\ agents' = [agents EXCEPT ![id] = step_miss(a)]
                             /\ schedule' = IF step_miss_removes(a)
                                            THEN remove_agent(schedule, id)
                                            ELSE schedule
    /\ UNCHANGED <<prob, step_number, results_df, pc>>
    /\ UNCHANGED <<use_ai, tab_borrowers, unit, grid>>

\* Mutant: step_number is incremented after the rows are written, so the rows
\* of a run_step carry the previous step's number.
StepSnapshot_stale ==
    /\ pc = "stepping"
    /\ buffer = <<>>
    /\ results_df' = results_df \o Snapshot(schedule, agents, step_number - 1)
    /\ pc' = "idle"
    /\ UNCHANGED <<prob, agents, schedule, step_number, buffer, activations>>
    /\ UNCHANGED <<use_ai, decision, tab_borrowers, unit, grid>>

\* CreditModel.step after schedule.step(): one row per agent still scheduled.
StepSnapshot ==
    /\ pc = "stepping"
    /\ buffer = <<>>
    /\ results_df' = results_df \o Snapshot(schedule, agents, step_number)
    /\ pc' = "idle"
    /\ UNCHANGED <<prob, agents, schedule, step_number, buffer, activations>>
    /\ UNCHANGED <<use_ai, decision, tab_borrowers, unit, grid>>

Next == StepBegin \/ BorrowerStep \/ StepSnapshot

Spec == Init /\ [][Next]_vars

\* The state after CreditModel(num_borrowers, num_months, prob, use_ai = True),
\* for the two values of prob whose list of outcomes holds a single outcome.
InitOracle == Constructed({0, 100}, TRUE, {50})

\* The run with the oracle enabled.
SpecOracle == InitOracle /\ [][Next]_vars

\* ------------------------------------------------------- simulation_models

RECURSIVE SumBalance(_)
SumBalance(rows) == IF rows = <<>> THEN 0 ELSE Head(rows).Balance + SumBalance(Tail(rows))

\* df.loc[df['Step'] == 0]['Balance'].sum(), in cents
loan_plus_interest(df) == SumBalance(SelectSeq(df, LAMBDA r : r.Step = 0))

\* idx = list(set(df['Borrower']))
idx(df) == {df[i].Borrower : i \in DOMAIN df}

\* Mutant: the balance of the borrower's first row (.iloc[0]) is taken.
last_balance_first(df, i) ==
    LET rows == SelectSeq(df, LAMBDA r : r.Borrower = i)
    IN  rows[1].Balance

\* df.loc[(df['Borrower'] == i)]['Balance'].iloc[-1], in cents
last_balance(df, i) ==
    LET rows == SelectSeq(df, LAMBDA r : r.Borrower = i)
    IN  rows[Len(rows)].Balance

RECURSIVE SumLast(_, _)
SumLast(df, S) ==
    IF S = {} THEN 0
    ELSE LET i == CHOOSE x \in S : TRUE
         IN  last_balance(df, i) + SumLast(df, S \ {i})

\* defaulted_loan_abs = sum(defaulted_list), in cents
defaulted_loan_abs(df) == SumLast(df, idx(df))

\* defaulted_loan_rel = sum(defaulted_list) / loan_plus_interest, as the pair
\* <<dividend, divisor>> of the division.
defaulted_loan_rel(df) == <<defaulted_loan_abs(df), loan_plus_interest(df)>>

\* ------------------------------------------------------- claim vocabulary

\* sum(self.defaulted) of borrower b: its consecutive-miss count.
Misses(b) == SumSeq(agents[b].defaulted)

\* The rows of borrower b, in the order they were appended.
RowsOf(b) == SelectSeq(results_df, LAMBDA r : r.Borrower = b)

\* The borrowers that have a row stamped with step k.
BorrowersAt(k) == {results_df[i].Borrower : i \in {j \in DOMAIN results_df : results_df[j].Step = k}}

\* The run_step in which borrower b defaulted (its last activation), when removed = 1.
DefaultStep(b) == activations[b][Len(activations[b])].step

\* How many step() calls were made on b during run_step k.
ActivationsIn(b, k) == Cardinality({i \in DOMAIN activations[b] : activations[b][i].step = k})

\* This transition is a step() call on b (and its decision).
SteppedNow(b) == Len(activations'[b]) = Len(activations[b]) + 1
PaidNow(b) == SteppedNow(b) /\ activations'[b][Len(activations'[b])].pay
MissedNow(b) == SteppedNow(b) /\ ~activations'[b][Len(activations'[b])].pay

\* The run loop "for i in range(num_months): model.step()" has finished.
RunComplete == pc = "idle" /\ step_number = NumMonths

\* ------------------------------------------------------------------ claims

\* C1: a scheduled (Active) borrower has at most 2 consecutive misses, and a
\* borrower whose count has reached 3 is, as of the very step() call that
\* counted the third miss, marked removed and off the schedule.
C1_MissesBoundedWhileActive ==
    \A b \in Ids :
        /\ b \in ScheduledSet => Misses(b) <= 2
        /\ Misses(b) >= 3 => (agents[b].removed = 1 /\ b \notin ScheduledSet)
        /\ agents[b].removed = 1 <=> b \notin ScheduledSet

\* A borrower has just defaulted on its third miss while another one is still
\* scheduled with two misses.
C1_Witness ==
    \E b, c \in Ids :
        /\ Misses(b) = 3 /\ agents[b].removed = 1 /\ b \notin ScheduledSet
        /\ c \in ScheduledSet /\ Misses(c) = 2

\* C2: a borrower that defaulted during run_step d has no row with Step >= d:
\* neither in the snapshot of step d nor in any later one.
C2_NoRowFromDefaultStepOn ==
    \A b \in Ids :
        agents[b].removed = 1 =>
            \A i \in DOMAIN results_df :
                results_df[i].Borrower = b => results_df[i].Step < DefaultStep(b)

\* A borrower defaulted in an earlier run_step, and snapshots of its default
\* step and of a later step were written for another borrower.
C2_Witness ==
    \E b, c \in Ids :
        /\ agents[b].removed = 1
        /\ pc = "idle"
        /\ DefaultStep(b) < step_number
        /\ c \in BorrowersAt(DefaultStep(b))
        /\ c \in BorrowersAt(step_number)

\* C3: Defaulted is terminal: once a borrower is removed, no transition steps
\* it again, puts it back on the schedule or the buffer's activation changes it.
C3_DefaultedIsTerminal ==
    [][\A b \in Ids :
          agents[b].removed = 1 =>
              /\ b \notin ScheduledSet'
              /\ activations'[b] = activations[b]
              /\ agents'[b] = agents[b]]_vars

\* A removed borrower has lived through a whole later run_step without being
\* stepped: its last activation is older than the current, finished step.
C3_Witness ==
    \E b, c \in Ids :
        /\ agents[b].removed = 1
        /\ b \notin ScheduledSet
        /\ RunComplete
        /\ DefaultStep(b) < step_number
        /\ ActivationsIn(b, step_number) = 0
        /\ ActivationsIn(c, step_number) = 1

\* C4: a run_step first increments step_number by exactly 1, then steps every
\* borrower scheduled at its start exactly once, in some order, and only when
\* all of them have run appends exactly one row, stamped with the new
\* step_number, per borrower still scheduled.
C4_RunStepOrder ==
    [][/\ step_number' # step_number =>
            /\ pc = "idle" /\ pc' = "stepping"
            /\ step_number' = step_number + 1
            /\ Len(buffer') = Len(schedule)
            /\ {buffer'[i] : i \in DOMAIN buffer'} = ScheduledSet
            /\ UNCHANGED <<agents, schedule, results_df, activations>>
       /\ (\E b \in Ids : SteppedNow(b)) =>
            /\ pc = "stepping" /\ pc' = "stepping"
            /\ SteppedNow(Head(buffer))
            /\ activations'[Head(buffer)][Len(activations'[Head(buffer)])].step = step_number
            /\ \A c \in Ids \ {Head(buffer)} : activations'[c] = activations[c]
            /\ UNCHANGED <<step_number, results_df>>
       /\ results_df' # results_df =>
            /\ pc = "stepping" /\ pc' = "idle" /\ buffer = <<>>
            /\ \A b \in Ids :
                  ActivationsIn(b, step_number) =
                      IF b \in BorrowersAt(step_number - 1) THEN 1 ELSE 0
            /\ Len(results_df') = Len(results_df) + Len(schedule)
            /\ SubSeq(results_df', 1, Len(results_df)) = results_df
            /\ \A i \in 1..Len(schedule) :
                  /\ results_df'[Len(results_df) + i].Step = step_number
                  /\ results_df'[Len(results_df) + i].Borrower = schedule[i]
            /\ UNCHANGED <<agents, schedule, step_number, activations>>
      ]_vars

\* A run_step has just finished in which two borrowers were stepped and only
\* one of them is still scheduled and got a row.
C4_Witness ==
    /\ pc = "idle"
    /\ step_number >= 3
    /\ \E b, c \in Ids :
          /\ b # c
          /\ ActivationsIn(b, step_number) = 1
          /\ ActivationsIn(c, step_number) = 1
          /\ b \in BorrowersAt(step_number)
          /\ c \notin BorrowersAt(step_number)

\* The decision borrower b took in run_step k (TRUE: pay), b stepped in k.
PaidIn(b, k) ==
    \E i \in DOMAIN activations[b] : activations[b][i].step = k /\ activations[b][i].pay

\* The step-0 row of borrower b.
Row0(b) == RowsOf(b)[1]

\* The payment of the original schedule of b, from its step-0 row and the term
\* (the row's Interest_Rate, read over 12 * 10000, is the monthly rate).
OriginalPayment(b) == MonthlyLoan(Row0(b).Principle, Row0(b).Interest_Rate, NumMonths)

\* C5 (as amended): construction appends, before any run_step and with
\* step_number = 0, exactly one Step-0 row per borrower, in creation order,
\* carrying paid_off = false and balance = total_payment rounded to 2 decimals
\* (round(monthly_payment x term_months, 2)).
C5_InitialSnapshotRounded ==
    /\ step_number = 0 => (pc = "idle" /\ Len(results_df) = NumBorrowers)
    /\ Len(results_df) >= NumBorrowers
    /\ \A i \in 1..Len(results_df) : results_df[i].Step = 0 <=> i <= NumBorrowers
    /\ \A b \in Ids :
          /\ results_df[b + 1].Borrower = b
          /\ results_df[b + 1].Payed_Off = FALSE
          /\ results_df[b + 1].Balance =
                Round2(MonthlyLoan(agents[b].loan_amount, agents[b].monthly_rate,
                                   agents[b].num_months) * agents[b].num_months)

\* C5 as stated: the Step-0 row carries balance = total_payment itself
\* (the row's cents against the amount in mills).
C5_InitialSnapshotExact ==
    \A b \in Ids :
        /\ results_df[b + 1].Step = 0
        /\ results_df[b + 1].Payed_Off = FALSE
        /\ results_df[b + 1].Balance * MillsPerCent =
              MonthlyLoan(agents[b].loan_amount, agents[b].monthly_rate,
                          agents[b].num_months) * agents[b].num_months

\* The portfolio has just been constructed, and the total payment of one of
\* its borrowers is not a whole number of cents.
C5_Witness ==
    /\ step_number = 0
    /\ Len(results_df) = NumBorrowers
    /\ \E b \in Ids : agents[b].balance % MillsPerCent # 0

\* C6: the Step values of a borrower's rows are exactly 0, 1, ..., k in this
\* order, without gap or duplicate: k is the last finished run_step if the
\* borrower never defaulted (M once the run of M steps is complete) and d - 1
\* if it defaulted in run_step d.
C6_StepsContiguous ==
    \A b \in Ids :
        LET rows == RowsOf(b)
            k == IF agents[b].removed = 1 THEN DefaultStep(b) - 1
                 ELSE IF pc = "stepping" THEN step_number - 1
                 ELSE step_number
        IN  /\ Len(rows) = k + 1
            /\ \A i \in 1..Len(rows) : rows[i].Step = i - 1
            /\ (RunComplete /\ agents[b].removed = 0) => Len(rows) = NumMonths + 1

\* The run is complete; one borrower went through all of it and another one
\* defaulted on the way.
C6_Witness ==
    /\ RunComplete
    /\ \E b, c \in Ids :
          /\ agents[b].removed = 0 /\ Len(RowsOf(b)) = NumMonths + 1
          /\ agents[c].removed = 1 /\ Len(RowsOf(c)) = DefaultStep(c)

\* C7: a step() that decides pay subtracts from balance exactly
\* (consecutive_misses + 1) times the payment of the original (principal,
\* monthly_rate, term_months), resets consecutive_misses to 0, sets paid_off
\* and lowers months_remaining by 1.
C7_PayTransition ==
    [][\A b \in Ids :
          PaidNow(b) =>
              /\ agents'[b].balance =
                    agents[b].balance - (Misses(b) + 1) * OriginalPayment(b)
              /\ agents'[b].defaulted = <<>>
              /\ agents'[b].payed_off = TRUE
              /\ agents'[b].time_to_repay = agents[b].time_to_repay - 1
              /\ b \in ScheduledSet']_vars

\* A borrower that made a catch-up payment for a missed month (so its stored
\* monthly_loan is twice the original payment) has paid again, a single
\* instalment.
C7_Witness ==
    \E b \in Ids :
        /\ Len(activations[b]) >= 3
        /\ LET n == Len(activations[b])
           IN  /\ ~activations[b][n - 2].pay
               /\ activations[b][n - 1].pay
               /\ activations[b][n].pay
        /\ agents[b].monthly_loan = OriginalPayment(b)

\* C8: a step() that decides miss and brings the consecutive-miss count to
\* less than 3 raises the count by exactly 1, clears paid_off, lowers
\* months_remaining by 1 and leaves balance unchanged; the borrower stays
\* scheduled.
C8_MissTransition ==
    [][\A b \in Ids :
          (MissedNow(b) /\ Misses(b) + 1 < 3) =>
              /\ SumSeq(agents'[b].defaulted) = Misses(b) + 1
              /\ agents'[b].payed_off = FALSE
              /\ agents'[b].time_to_repay = agents[b].time_to_repay - 1
              /\ agents'[b].balance = agents[b].balance
              /\ agents'[b].removed = 0
              /\ b \in ScheduledSet']_vars

\* A borrower that had paid has then missed twice in a row and is still
\* scheduled, with its paid_off flag cleared.
C8_Witness ==
    \E b \in Ids :
        /\ Len(activations[b]) >= 3
        /\ LET n == Len(activations[b])
           IN  /\ activations[b][n - 2].pay
               /\ ~activations[b][n - 1].pay
               /\ ~activations[b][n].pay
        /\ Misses(b) = 2
        /\ agents[b].payed_off = FALSE
        /\ b \in ScheduledSet

\* C9: in consecutive rows of a borrower the balance never increases: it is
\* strictly lower after a step in which the borrower paid and the same after a
\* step in which it missed.
C9_BalanceNonIncreasing ==
    \A b \in Ids :
        LET rows == RowsOf(b)
        IN  \A i \in 2..Len(rows) :
               /\ rows[i].Balance <= rows[i - 1].Balance
               /\ IF PaidIn(b, rows[i].Step)
                  THEN rows[i].Balance < rows[i - 1].Balance
                  ELSE rows[i].Balance = rows[i - 1].Balance

\* A borrower has rows for a step it missed and for a later step it paid.
C9_Witness ==
    \E b \in Ids :
        LET rows == RowsOf(b)
        IN  \E i, j \in 2..Len(rows) :
               /\ i < j
               /\ ~PaidIn(b, rows[i].Step) /\ rows[i].Balance = rows[i - 1].Balance
               /\ PaidIn(b, rows[j].Step) /\ rows[j].Balance < rows[j - 1].Balance

\* C10: for a completed run with loan_plus_interest > 0, defaulted_loan_rel is
\* in [0, 1]: every borrower's last recorded balance is at least 0 and at most
\* its step-0 balance.
C10_DefaultedLoanRelInUnitInterval ==
    (RunComplete /\ loan_plus_interest(results_df) > 0) =>
        /\ defaulted_loan_rel(results_df)[1] >= 0
        /\ defaulted_loan_rel(results_df)[1] <= defaulted_loan_rel(results_df)[2]
        /\ \A b \in idx(results_df) :
              /\ last_balance(results_df, b) >= 0
              /\ last_balance(results_df, b) <= Row0(b).Balance

\* A completed run in which one borrower has repaid everything (last balance
\* 0, after a catch-up payment) and another one defaulted with its whole
\* balance outstanding.
C10_Witness ==
    /\ RunComplete
    /\ loan_plus_interest(results_df) > 0
    /\ \E b, c \in Ids :
          /\ last_balance(results_df, b) = 0
          /\ \E k \in 1..NumMonths : ~PaidIn(b, k)
          /\ agents[c].removed = 1
          /\ last_balance(results_df, c) = Row0(c).Balance

\* ------------------------------------------- simulation_models: the totals

\* defaulted_borrowers = tab_borrowers['Borrower'].iloc[0] -
\* tab_borrowers['Borrower'].iloc[-1]: simulation_models builds no pivot table
\* of its own df, so the name is the module-level one.
defaulted_borrowers == tab_borrowers[1] - tab_borrowers[Len(tab_borrowers)]

\* C12: for a completed run the reported defaulted_borrowers is the number of
\* borrowers of that run at step 0 minus the number of its borrowers at the
\* final step M.
C12_DefaultedBorrowersOfThisRun ==
    RunComplete =>
        defaulted_borrowers =
            Cardinality(BorrowersAt(0)) - Cardinality(BorrowersAt(NumMonths))

\* The Balance of the row of borrower b stamped with step k.
BalanceAt(b, k) ==
    LET i == CHOOSE j \in DOMAIN results_df :
                 results_df[j].Borrower = b /\ results_df[j].Step = k
    IN  results_df[i].Balance

\* The step of the record the claim calls a borrower's last one: M if it never
\* defaulted, the step before its removal if it did.
LastRecordStep(b) == IF agents[b].removed = 1 THEN DefaultStep(b) - 1 ELSE NumMonths

RECURSIVE SumLastRecords(_)
SumLastRecords(S) ==
    IF S = {} THEN 0
    ELSE LET b == CHOOSE x \in S : TRUE
         IN  BalanceAt(b, LastRecordStep(b)) + SumLastRecords(S \ {b})

\* C13: for a completed run defaulted_loan_abs is the sum, over every borrower
\* with a step-0 record, of the balance of its last record: the step-M record
\* if it never defaulted, the record of the step before its removal if it did.
C13_DefaultedLoanAbsSumsLastRecords ==
    RunComplete =>
        /\ \A b \in BorrowersAt(0) :
              \E j \in DOMAIN results_df :
                  results_df[j].Borrower = b /\ results_df[j].Step = LastRecordStep(b)
        /\ defaulted_loan_abs(results_df) = SumLastRecords(BorrowersAt(0))

\* A completed run in which one borrower paid in some step and went through
\* all M steps with a balance left, and another one defaulted after a payment.
C13_Witness ==
    /\ RunComplete
    /\ \E b, c \in Ids :
          /\ agents[b].removed = 0
          /\ 0 < BalanceAt(b, NumMonths) /\ BalanceAt(b, NumMonths) < Row0(b).Balance
          /\ agents[c].removed = 1
          /\ BalanceAt(c, DefaultStep(c) - 1) < Row0(c).Balance

RECURSIVE SumPrinciple(_)
SumPrinciple(rows) ==
    IF rows = <<>> THEN 0 ELSE Head(rows).Principle + SumPrinciple(Tail(rows))

\* loan_amount = df.loc[df['Step'] == 0]['Principle'].sum(), in USD
loan_amount(df) == SumPrinciple(SelectSeq(df, LAMBDA r : r.Step = 0))

\* profit_abs = (loan_plus_interest - defaulted_loan_abs) - loan_amount, in cents
profit_abs(df) ==
    (loan_plus_interest(df) - defaulted_loan_abs(df)) - loan_amount(df) * CentsPerUSD

\* profit_rel = profit_abs / loan_amount, as the pair <<dividend, divisor>> of
\* the division (both in cents).
profit_rel(df) == <<profit_abs(df), loan_amount(df) * CentsPerUSD>>

\* Mutant: the relative profit is divided by the number of months, not of years.
roi_per_month(df, num_months) == <<profit_rel(df)[1], profit_rel(df)[2] * num_months>>

\* roi = profit_rel / (num_months / 12), as the pair <<dividend, divisor>>:
\* (a / b) / (m / 12) = (a * 12) / (b * m).
roi(df, num_months) == <<profit_rel(df)[1] * 12, profit_rel(df)[2] * num_months>>

RECURSIVE Gcd(_, _)
Gcd(a, b) == IF b = 0 THEN a ELSE Gcd(b, a % b)

Abs(x) == IF x < 0 THEN -x ELSE x

\* The quotient q[1] / q[2] (q[2] > 0) in lowest terms.
Reduced(q) ==
    LET g == Gcd(Abs(q[1]), q[2])
    IN  <<q[1] \div g, q[2] \div g>>

RECURSIVE SumRow0(_, _)
SumRow0(S, col) ==
    IF S = {} THEN 0
    ELSE LET b == CHOOSE x \in S : TRUE
         IN  (IF col = "Balance" THEN Row0(b).Balance ELSE Row0(b).Principle * CentsPerUSD)
             + SumRow0(S \ {b}, col)

\* C14: for a completed run of M steps the reported ROI is
\* (((loan_plus_interest - defaulted_loan_abs) - loan_amount) / loan_amount) / (M / 12),
\* loan_amount and loan_plus_interest being the sums of principal and of
\* balance over the step-0 records: as a number,
\* 12 * ((loan_plus_interest - defaulted_loan_abs) - loan_amount) / (loan_amount * M).
C14_RoiFormula ==
    RunComplete =>
        LET la == SumRow0(BorrowersAt(0), "Principle")
            lpi == SumRow0(BorrowersAt(0), "Balance")
            dla == defaulted_loan_abs(results_df)
        IN  /\ la > 0
            /\ loan_amount(results_df) * CentsPerUSD = la
            /\ loan_plus_interest(results_df) = lpi
            /\ Reduced(roi(results_df, NumMonths)) =
                   Reduced(<<12 * ((lpi - dla) - la), la * NumMonths>>)

\* A completed run with a negative ROI: one borrower repaid everything and
\* another one defaulted, leaving more outstanding than the interest earned.
C14_Witness ==
    /\ RunComplete
    /\ roi(results_df, NumMonths)[1] < 0
    /\ \E b, c \in Ids :
          /\ agents[c].removed = 1
          /\ last_balance(results_df, b) = 0

\* -------------------------------------------------- calls outside of a run
\* The functions of Lender and Borrower called on their own, on inputs drawn
\* from bounded sets; no CreditModel exists in these behaviours.

NoModel ==
    /\ prob = 0
    /\ agents = <<>>
    /\ schedule = <<>>
    /\ step_number = 0
    /\ results_df = <<>>
    /\ pc = "none"
    /\ buffer = <<>>
    /\ activations = <<>>
    /\ use_ai = FALSE
    /\ decision = NoDecision
    /\ tab_borrowers = <<>>

ModelUnchanged ==
    UNCHANGED <<prob, agents, schedule, step_number, results_df, pc, buffer,
                activations, use_ai, decision, tab_borrowers, grid>>

\* The credit scores random.randint(50, 100) can give.
CreditScores == 50..100

\* Lender.calculate_interest_rate(credit_score), to be called.
RateCalls ==
    {[op |-> "calculate_interest_rate", credit_score |-> cs, done |-> FALSE] :
        cs \in CreditScores}

\* Lender.calculate_interest_rate(credit_score) returns.
CallInterestRate ==
    /\ unit.op = "calculate_interest_rate"
    /\ ~unit.done
    /\ unit' = [op |-> unit.op, credit_score |-> unit.credit_score, done |-> TRUE,
                result |-> calculate_interest_rate(unit.credit_score)]
    /\ ModelUnchanged

\* Borrower(...), to be constructed: __init__ draws the credit score.
BorrowerCalls == {[op |-> "Borrower", done |-> FALSE]}

\* Borrower.__init__ returns: the borrower, for the credit score, the profile
\* and the loan amount it drew; or it raises, on the division
\* numerator / denominator of select_valid_loan_amount by a denominator of 0.
CallBorrower ==
    /\ unit.op = "Borrower"
    /\ ~unit.done
    /\ \E cs \in CreditScores :
       \E pr \in PROFILES :
          IF denominator(calculate_interest_rate(cs), NumMonths) = 0
          THEN unit' = [op |-> unit.op, done |-> TRUE, error |-> "ZeroDivisionError"]
          ELSE \E la \in valid_loans(NumMonths, calculate_interest_rate(cs))
                             \cap LoanSample :
                  unit' = [op |-> unit.op, done |-> TRUE, error |-> "none",
                           result |-> NewBorrower(0, NumMonths, 10, FALSE, cs, pr, la)]
    /\ ModelUnchanged

\* The values of max_total_payment select_valid_loan_amount is called with:
\* the default, and caps that leave two candidates and none.
MaxTotalSample == {max_total_payment, 56000, 50000}

\* Borrower.select_valid_loan_amount(max_total_payment), to be called on a
\* borrower of the given term and credit score.
SelectCalls ==
    {[op |-> "select_valid_loan_amount", num_months |-> n, credit_score |-> cs,
      max_total |-> cap, done |-> FALSE] :
        n \in TermSample, cs \in CreditScoreSample, cap \in MaxTotalSample}

\* Borrower.select_valid_loan_amount returns or raises.
CallSelect ==
    /\ unit.op = "select_valid_loan_amount"
    /\ ~unit.done
    /\ \E res \in select_valid_loan_amount(unit.num_months,
                      calculate_interest_rate(unit.credit_score), unit.max_total) :
          unit' = [op |-> unit.op, num_months |-> unit.num_months,
                   credit_score |-> unit.credit_score, max_total |-> unit.max_total,
                   done |-> TRUE, result |-> res]
    /\ ModelUnchanged

\* The characters and the length of the message contents interpret_content
\* is called with.
Alphabet == {"p", "a", "y", "P", "A", "Y", " ", "n"}
MaxTextLen == 4
Texts == UNION {[1..n -> Alphabet] : n \in 0..MaxTextLen}

\* The interpretation of a message content, to be called.
InterpretCalls == {[op |-> "interpret_content", text |-> t, done |-> FALSE] : t \in Texts}

\* The interpretation of a message content returns.
CallInterpret ==
    /\ unit.op = "interpret_content"
    /\ ~unit.done
    /\ unit' = [op |-> unit.op, text |-> unit.text, done |-> TRUE,
                result |-> interpret_content(unit.text)]
    /\ ModelUnchanged

\* The miss probabilities p, in percent, probability_of_payment is called with.
Percents == 0..100

\* How many random.choice(self.prob) calls follow the construction of the list.
MaxSamples == 2

\* Borrower.probability_of_payment(p), to be called.
ProbabilityCalls ==
    {[op |-> "probability_of_payment", p |-> p, done |-> FALSE] : p \in Percents}

\* Borrower.probability_of_payment(p) returns the list self.prob.
CallProbability ==
    /\ unit.op = "probability_of_payment"
    /\ ~unit.done
    /\ unit' = [op |-> unit.op, p |-> unit.p, done |-> TRUE,
                a |-> [use_ai |-> FALSE, prob |-> probability_of_payment(unit.p)],
                samples |-> <<>>]
    /\ ModelUnchanged

\* Borrower.decide_to_pay, use_ai = False, on the borrower holding the list.
CallDecide ==
    /\ unit.op = "probability_of_payment"
    /\ unit.done
    /\ Len(unit.samples) < MaxSamples
    /\ \E d \in decide_to_pay(unit.a) :
          unit' = [unit EXCEPT !.samples = Append(@, d.pay)]
    /\ ModelUnchanged

\* schedule.remove(agent) raises: "del self._agents[agent.unique_id]" of the
\* scheduler is the deletion of a dictionary key, a KeyError when the key is
\* not there; remove_agent has no guard of its own.
remove_agent_raises(sched, id) == id \notin {sched[i] : i \in DOMAIN sched}

\* How many times remove_agent is called on the same borrower.
MaxRemoveCalls == 2

\* CreditModel.remove_agent(agent), to be called on one borrower of a
\* schedule of NumBorrowers borrowers.
RemoveCalls ==
    {[op |-> "remove_agent", schedule |-> [i \in 1..NumBorrowers |-> i - 1], id |-> id,
      calls |-> 0, raised |-> FALSE] : id \in Ids}

\* CreditModel.remove_agent(agent) returns or raises.
CallRemove ==
    /\ unit.op = "remove_agent"
    /\ ~unit.raised
    /\ unit.calls < MaxRemoveCalls
    /\ IF remove_agent_raises(unit.schedule, unit.id)
       THEN unit' = [unit EXCEPT !.calls = @ + 1, !.raised = TRUE]
       ELSE unit' = [unit EXCEPT !.calls = @ + 1,
                                 !.schedule = remove_agent(@, unit.id)]
    /\ ModelUnchanged

InitUnit ==
    /\ NoModel
    /\ grid = NoGrid
    /\ unit \in RateCalls \cup BorrowerCalls \cup SelectCalls \cup InterpretCalls
                \cup ProbabilityCalls \cup RemoveCalls

NextUnit ==
    \/ CallInterestRate
    \/ CallBorrower
    \/ CallSelect
    \/ CallInterpret
    \/ CallProbability
    \/ CallDecide
    \/ CallRemove

SpecUnit == InitUnit /\ [][NextUnit]_vars

\* total_payment of candidate p for a borrower of credit score cs and term n, in mills.
TotalPayment(p, cs, n) == MonthlyLoan(p, calculate_interest_rate(cs), n) * n

\* The candidates of range(50_000, 500_000, 5000) within the cap of the call.
ValidCandidates ==
    {p \in LoanRange :
        TotalPayment(p, unit.credit_score, unit.num_months) <= unit.max_total * MillsPerUSD}

\* C15: select_valid_loan_amount returns a principal p of {50000, 55000, ...,
\* 495000} with total_payment(p) <= the cap (500000 by default), any such
\* candidate can be the one returned, and it raises (NoFeasibleLoan: the
\* ValueError) exactly when no candidate is within the cap.
C15_SelectValidLoanAmount ==
    unit.op = "select_valid_loan_amount" =>
        IF unit.done
        THEN /\ unit.result.raised <=> ValidCandidates = {}
             /\ ~unit.result.raised =>
                   /\ unit.result.value \in LoanRange
                   /\ unit.result.value >= 50000 /\ unit.result.value <= 495000
                   /\ unit.result.value % 5000 = 0
                   /\ unit.result.value \in ValidCandidates
        ELSE \A p \in ValidCandidates :
                 ENABLED (CallSelect /\ unit'.result = [raised |-> FALSE, value |-> p])

\* A call under the default cap for which some candidates are over the cap has
\* returned the largest candidate within it.
C15_Witness ==
    /\ unit.op = "select_valid_loan_amount"
    /\ unit.done
    /\ unit.max_total = max_total_payment
    /\ ~unit.result.raised
    /\ ValidCandidates # LoanRange
    /\ \A p \in ValidCandidates : p <= unit.result.value

\* C18: a message content is interpreted as pay exactly when it contains,
\* case-insensitively, the substring "pay"; every other content, the empty one
\* included, is interpreted as miss.
C18_PayIffContainsPay ==
    (unit.op = "interpret_content" /\ unit.done) =>
        /\ unit.result <=>
              \E i \in 1..(Len(unit.text) - 2) :
                  /\ unit.text[i] \in {"p", "P"}
                  /\ unit.text[i + 1] \in {"a", "A"}
                  /\ unit.text[i + 2] \in {"y", "Y"}
        /\ unit.text = <<>> => ~unit.result

\* A content with leading whitespace and "pay" in mixed case was interpreted
\* as pay.
C18_Witness ==
    /\ unit.op = "interpret_content"
    /\ unit.done
    /\ unit.text = <<" ", "P", "a", "Y">>
    /\ unit.result

\* How many elements of the list are v.
Count(list, v) == Cardinality({i \in DOMAIN list : list[i] = v})

\* C19 (as amended): for every p of [0, 1] (in percent) and L = 20 the list of
\* outcomes has exactly int(p * L) misses, p * L truncated, and L - int(p * L)
\* pays; sampling from it returns one of its elements and leaves it as it is.
C19_MissesTruncated ==
    (unit.op = "probability_of_payment" /\ unit.done) =>
        /\ Len(unit.a.prob) = 20
        /\ Count(unit.a.prob, 0) = (unit.p * 20) \div 100
        /\ Count(unit.a.prob, 1) = 20 - (unit.p * 20) \div 100
        /\ \A i \in DOMAIN unit.samples :
              Count(unit.a.prob, IF unit.samples[i] THEN 1 ELSE 0) > 0

\* C19 as stated: the list has exactly round(p * L) misses and L - round(p * L)
\* pays, before and after sampling.
C19_MissesRounded ==
    (unit.op = "probability_of_payment" /\ unit.done) =>
        /\ Len(unit.a.prob) = 20
        /\ Count(unit.a.prob, 0) = RoundDiv(unit.p * 20, 100)
        /\ Count(unit.a.prob, 1) = 20 - RoundDiv(unit.p * 20, 100)

\* The list built for p = 0.29 (p * L = 5.8) has 5 misses, and it still has
\* them after a miss and a pay were sampled from it.
C19_Witness ==
    /\ unit.op = "probability_of_payment"
    /\ unit.done
    /\ unit.p = 29
    /\ Count(unit.a.prob, 0) = 5
    /\ unit.samples = <<FALSE, TRUE>>

\* C20: for every integer credit score of [50, 100] the lender's rate is
\* 0.04 + (100 - credit_score) * 0.0004 (in 1/10000: 400 + (100 - cs) * 4), it
\* lies in [0.04, 0.06], is 0.06 at 50 and 0.04 at 100 and does not increase
\* with the credit score; and the interest_rate of every borrower constructed
\* lies in [0.04, 0.06].
C20_InterestRateRange ==
    /\ (unit.op = "calculate_interest_rate" /\ unit.done) =>
          /\ unit.result = 400 + (100 - unit.credit_score) * 4
          /\ unit.result >= 400 /\ unit.result <= 600
          /\ unit.credit_score = 50 => unit.result = 600
          /\ unit.credit_score = 100 => unit.result = 400
          /\ \A cs \in unit.credit_score..100 :
                calculate_interest_rate(cs) <= unit.result
    /\ (unit.op = "Borrower" /\ unit.done) =>
          /\ unit.result.credit_score \in 50..100
          /\ unit.result.interest_rate >= 400 /\ unit.result.interest_rate <= 600
          /\ unit.result.interest_rate = 400 + (100 - unit.result.credit_score) * 4

\* A borrower was constructed with the lowest credit score and carries the
\* highest rate, 0.06.
C20_Witness ==
    /\ unit.op = "Borrower"
    /\ unit.done
    /\ unit.result.credit_score = 50
    /\ unit.result.interest_rate = 600

\* C17: with the oracle enabled, a step() calls the oracle once, never again;
\* when the call fails the decision is one sample of the borrower's own list
\* of outcomes; the failure does not leave decide_to_pay, and the step
\* completes with the pay or the miss transition of that decision.
C17_OracleFailureFallsBack ==
    [][\A b \in Ids :
          SteppedNow(b) =>
              LET pay == activations'[b][Len(activations'[b])].pay
              IN  /\ agents[b].use_ai
                  /\ decision'.calls = 1
                  /\ decision'.raised =>
                        Count(agents[b].prob, IF pay THEN 1 ELSE 0) > 0
                  /\ ~decision'.raised => (pay <=> interpret_content(decision'.content))
                  /\ pc' = "stepping"
                  /\ agents'[b] = IF pay THEN step_pay(agents[b]) ELSE step_miss(agents[b])
                  /\ (b \in ScheduledSet') <=> (agents'[b].removed = 0)]_vars

\* The oracle call of a borrower whose list holds only misses has failed, the
\* sample taken from the list instead was a miss, and with it the borrower,
\* the first one stepped in this run_step, defaulted and was removed.
C17_Witness ==
    /\ prob = 100
    /\ decision.raised
    /\ decision.calls = 1
    /\ pc = "stepping"
    /\ \E b \in Ids :
          /\ Len(activations[b]) = step_number
          /\ ~activations[b][step_number].pay
          /\ agents[b].removed = 1
          /\ \A c \in Ids \ {b} : Len(activations[c]) < step_number

\* ------------------------------------------ CreditModel.__init__, by steps

\* The loan amounts random.choice(valid_loans) is sampled at in a construction.
ConstructLoanSample == {50000, 250000}

\* CreditModel(num_borrowers, num_months, prob) has been called: the
\* attributes assigned before the loop over range(num_borrowers) are set, and
\* results_df does not exist yet.  unit holds the call: its num_months, the
\* loop index i and the exception that left it, if one did.
InitConstruct ==
    /\ prob \in ProbSample
    /\ use_ai = FALSE
    /\ agents = <<>>
    /\ schedule = <<>>
    /\ step_number = 0
    /\ results_df = <<>>
    /\ pc = "constructing"
    /\ buffer = <<>>
    /\ activations = <<>>
    /\ decision = NoDecision
    /\ tab_borrowers \in TabBorrowersSample
    /\ grid = NoGrid
    /\ unit \in {[op |-> "CreditModel", num_months |-> n, i |-> 0, error |-> "none"] :
                    n \in ConstructTermSample}

\* Mutant: a borrower that cannot be constructed is skipped, and the loop goes on.
AddBorrower_skip ==
    /\ pc = "constructing"
    /\ unit.i < NumBorrowers
    /\ \E cs \in CreditScoreSample :
       \E pr \in ProfileSample :
       \E res \in select_valid_loan_amount(unit.num_months, calculate_interest_rate(cs),
                                           max_total_payment) :
          /\ res.raised \/ res.value \in ConstructLoanSample
          /\ IF res.raised
             THEN /\ unit' = [unit EXCEPT !.i = @ + 1, !.error = "ValueError"]
                  /\ UNCHANGED <<agents, schedule, activations, pc>>
             ELSE /\ agents' = [j \in 0..unit.i |->
                                   IF j = unit.i
                                   THEN NewBorrower(unit.i, unit.num_months, prob, use_ai,
                                                    cs, pr, res.value)
                                   ELSE agents[j]]
                  /\ schedule' = Append(schedule, unit.i)
                  /\ activations' = [j \in 0..unit.i |->
                                        IF j = unit.i THEN <<>> ELSE activations[j]]
                  /\ unit' = [unit EXCEPT !.i = @ + 1]
                  /\ pc' = pc
    /\ UNCHANGED <<prob, use_ai, step_number, results_df, buffer, decision,
                   tab_borrowers, grid>>

\* One pass of "for i in range(self.num_borrowers)": Borrower(i, ...) draws its
\* credit score and its loan amount and is added to the schedule, or
\* select_valid_loan_amount raises, which leaves __init__.
AddBorrower ==
    /\ pc = "constructing"
    /\ unit.i < NumBorrowers
    /\ \E cs \in CreditScoreSample :
       \E pr \in ProfileSample :
       \E res \in select_valid_loan_amount(unit.num_months, calculate_interest_rate(cs),
                                           max_total_payment) :
          /\ res.raised \/ res.value \in ConstructLoanSample
          /\ IF res.raised
             THEN /\ unit' = [unit EXCEPT !.error = "ValueError"]
                  /\ pc' = "failed"
                  /\ UNCHANGED <<agents, schedule, activations>>
             ELSE /\ agents' = [j \in 0..unit.i |->
                                   IF j = unit.i
                                   THEN NewBorrower(unit.i, unit.num_months, prob, use_ai,
                                                    cs, pr, res.value)
                                   ELSE agents[j]]
                  /\ schedule' = Append(schedule, unit.i)
                  /\ activations' = [j \in 0..unit.i |->
                                        IF j = unit.i THEN <<>> ELSE activations[j]]
                  /\ unit' = [unit EXCEPT !.i = @ + 1]
                  /\ pc' = pc
    /\ UNCHANGED <<prob, use_ai, step_number, results_df, buffer, decision,
                   tab_borrowers, grid>>

\* The loop is over: results_df is created, the step-0 rows are stored and
\* __init__ returns.
InitialSnapshot ==
    /\ pc = "constructing"
    /\ unit.i = NumBorrowers
    /\ results_df' = Snapshot(schedule, agents, step_number)
    /\ pc' = "idle"
    /\ UNCHANGED <<prob, agents, schedule, step_number, buffer, activations,
                   use_ai, decision, tab_borrowers, unit, grid>>

NextConstruct == AddBorrower \/ InitialSnapshot

SpecConstruct == InitConstruct /\ [][NextConstruct]_vars

\* C16: when the construction of any one borrower raises NoFeasibleLoan (the
\* ValueError of select_valid_loan_amount), the construction of the portfolio
\* fails: it stops there for good and stores no step-0 row; a construction
\* that returns has all num_borrowers borrowers and their step-0 rows.
C16_ConstructionFailsAsAWhole ==
    /\ unit.error = "ValueError" <=> pc = "failed"
    /\ pc = "failed" =>
          /\ results_df = <<>>
          /\ Len(schedule) < NumBorrowers
          /\ ~ENABLED NextConstruct
          /\ ~ENABLED Next
    /\ pc = "idle" =>
          /\ Len(schedule) = NumBorrowers
          /\ Len(results_df) = NumBorrowers
          /\ \A j \in 1..NumBorrowers :
                results_df[j].Step = 0 /\ results_df[j].Borrower = j - 1
    /\ results_df # <<>> => pc = "idle"

\* The first borrower was constructed and added to the schedule, the second
\* one found no valid loan amount: the construction has failed, without rows.
C16_Witness ==
    /\ pc = "failed"
    /\ unit.error = "ValueError"
    /\ Len(schedule) = 1
    /\ unit.i = 1
    /\ results_df = <<>>

\* C21: remove_agent is idempotent: called on a borrower that was already
\* removed it raises no error and leaves the schedule as the first call left it.
C21_RemoveIdempotent ==
    unit.op = "remove_agent" =>
        /\ ~unit.raised
        /\ unit.calls >= 1 =>
              unit.schedule = SelectSeq([i \in 1..NumBorrowers |-> i - 1],
                                        LAMBDA k : k # unit.id)

\* C22: no step() and no run_step changes a borrower's id, credit_score,
\* profile, interest_rate, monthly_rate or principal, and every row of a
\* borrower carries the principal, the credit_score and the interest_rate of
\* its step-0 row.
C22_ImmutableFields ==
    [][\A b \in Ids :
          /\ agents'[b].unique_id = agents[b].unique_id
          /\ agents'[b].credit_score = agents[b].credit_score
          /\ agents'[b].profile = agents[b].profile
          /\ agents'[b].interest_rate = agents[b].interest_rate
          /\ agents'[b].monthly_rate = agents[b].monthly_rate
          /\ agents'[b].loan_amount = agents[b].loan_amount
          /\ \A i \in DOMAIN results_df' :
                results_df'[i].Borrower = b =>
                    /\ results_df'[i].Principle = results_df'[b + 1].Principle
                    /\ results_df'[i].Credit_Score = results_df'[b + 1].Credit_Score
                    /\ results_df'[i].Interest_Rate = results_df'[b + 1].Interest_Rate
                    /\ results_df'[i].Principle = agents[b].loan_amount
                    /\ results_df'[i].Credit_Score = agents[b].credit_score
                    /\ results_df'[i].Interest_Rate = agents[b].interest_rate]_vars

\* A borrower paid, then missed, then paid again, and the row written after
\* the third step carries the principal, score and rate of its step-0 row.
C22_Witness ==
    \E b \in Ids :
        /\ PaidIn(b, 1) /\ ~PaidIn(b, 2) /\ PaidIn(b, 3)
        /\ Len(RowsOf(b)) >= 4
        /\ RowsOf(b)[4].Step = 3
        /\ RowsOf(b)[4].Principle = Row0(b).Principle
        /\ RowsOf(b)[4].Credit_Score = Row0(b).Credit_Score
        /\ RowsOf(b)[4].Interest_Rate = Row0(b).Interest_Rate

\* C23: months_remaining (time_to_repay) never increases; a step() that does
\* not default the borrower lowers it by exactly 1; and in a run of at most
\* term_months run_steps it is never below 0.
C23_MonthsRemaining ==
    [][\A b \in Ids :
          /\ agents'[b].time_to_repay <= agents[b].time_to_repay
          /\ (SteppedNow(b) /\ agents'[b].removed = 0) =>
                agents'[b].time_to_repay = agents[b].time_to_repay - 1
          /\ ~SteppedNow(b) => agents'[b].time_to_repay = agents[b].time_to_repay
          /\ agents[b].num_months >= step_number'
          /\ agents'[b].time_to_repay >= 0]_vars

\* The run of term_months steps is complete: a borrower that missed, made a
\* catch-up payment and never defaulted has 0 months remaining.
C23_Witness ==
    /\ RunComplete
    /\ \E b \in Ids :
          /\ agents[b].num_months = NumMonths
          /\ agents[b].removed = 0
          /\ agents[b].time_to_repay = 0
          /\ ~PaidIn(b, 1) /\ PaidIn(b, 2)

\* Borrower a as its own decisions alone make it: the borrower constructed
\* with its id, score, profile and principal, after the first k of the
\* decisions ds.
RECURSIVE Replay(_, _, _)
Replay(a, ds, k) ==
    IF k = 0
    THEN NewBorrower(a.unique_id, a.num_months, prob, a.use_ai, a.credit_score,
                     a.profile, a.loan_amount)
    ELSE LET q == Replay(a, ds, k - 1)
         IN  IF ds[k].pay THEN step_pay(q) ELSE step_miss(q)

\* The rows of run_step k as the decisions alone make them: one row, in
\* creation order, per borrower that took k decisions without defaulting.
ReplaySnapshot(ags, acts, k) ==
    LET alive == SelectSeq([i \in 1..NumBorrowers |-> i - 1],
                           LAMBDA b : /\ Len(acts[b]) >= k
                                      /\ Replay(ags[b], acts[b], k).removed = 0)
    IN  [i \in 1..Len(alive) |-> new_row(Replay(ags[alive[i]], acts[alive[i]], k), k)]

\* C24: a step() of one borrower leaves every other borrower as it was
\* (balance, months_remaining, consecutive misses, paid_off, removed, and
\* whether it is scheduled); so every borrower, and every snapshot appended
\* to the ResultsLog, is what the per-borrower decision sequences alone make
\* it, whatever the order in which the borrowers were activated.
C24_NoSharedState ==
    /\ results_df = ReplaySnapshot(agents, activations, 0)
    /\ [][/\ \A b \in Ids :
                SteppedNow(b) =>
                    /\ agents'[b] =
                          Replay(agents'[b], activations'[b], Len(activations'[b]))
                    /\ (b \in ScheduledSet') <=> (agents'[b].removed = 0)
                    /\ \A c \in Ids \ {b} :
                          /\ agents'[c] = agents[c]
                          /\ activations'[c] = activations[c]
                          /\ (c \in ScheduledSet') <=> (c \in ScheduledSet)
          /\ results_df' # results_df =>
                results_df' =
                    results_df \o ReplaySnapshot(agents', activations', step_number')
         ]_vars

\* In the current run_step the borrower created second was activated first
\* and defaulted, and the borrower created first, not yet activated in this
\* step, is still scheduled.
C24_Witness ==
    /\ pc = "stepping"
    /\ buffer = <<0>>
    /\ ActivationsIn(1, step_number) = 1
    /\ agents[1].removed = 1
    /\ 0 \in ScheduledSet
    /\ Len(activations[0]) = step_number - 1
    /\ agents[0] = Replay(agents[0], activations[0], step_number - 1)

\* C25: the stored monthly_payment (monthly_loan) of a borrower is the one
\* derived at construction from (principal, monthly_rate, term_months), after
\* any sequence of step() calls.
C25_MonthlyLoanKept ==
    \A b \in Ids :
        agents[b].monthly_loan =
            MonthlyLoan(agents[b].loan_amount, agents[b].monthly_rate, agents[b].num_months)

\* C26 (as amended): the step() in which a borrower defaults, its third
\* consecutive miss, changes neither its balance nor its months_remaining nor
\* its paid_off flag; the balance of the borrower's last row, the amount
\* counted as its defaulted loss, is its balance at default rounded to 2
\* decimals.
C26_DefaultStepKeepsBalance ==
    /\ [][\A b \in Ids :
             (MissedNow(b) /\ agents'[b].removed = 1) =>
                 /\ Misses(b) = 2
                 /\ agents'[b].balance = agents[b].balance
                 /\ agents'[b].time_to_repay = agents[b].time_to_repay
                 /\ agents'[b].payed_off = agents[b].payed_off
                 /\ results_df' = results_df]_vars
    /\ [](\A b \in Ids :
             agents[b].removed = 1 =>
                 last_balance(results_df, b) = Round2(agents[b].balance))

\* C26 as stated: the balance of the last row of a defaulted borrower is its
\* balance at default itself (the row's cents against the amount in mills).
C26_LastRowExact ==
    \A b \in Ids :
        agents[b].removed = 1 =>
            last_balance(results_df, b) * MillsPerCent = agents[b].balance

\* A borrower paid in the first step and then missed three times in a row: it
\* has defaulted with a balance that is not a whole number of cents.
C26_Witness ==
    \E b \in Ids :
        /\ agents[b].removed = 1
        /\ PaidIn(b, 1)
        /\ Misses(b) = 3
        /\ agents[b].balance % MillsPerCent # 0
        /\ agents[b].balance < calculate_loan_amount(agents[b])[2]

\* ------------------------------------------------ the two agents in a grid
\* random_agents_in_a_grid_space.ipynb: class Agent, class Model and the loop
\* "for i in range(num_iter): update(1)".  A list index i of Python is the
\* index i + 1 of the sequence.

\* The number of grid cells in x and y direction, and the number of iterations.
grid_space_xy == 4
num_iter == 3

\* random.randint(-2, 2)
Deltas == (0 - 2)..2

\* Mutant: a move that would leave the grid on either axis is dropped whole.
move_coupled(agent, dx, dy, width, height) ==
    LET new_x == agent.x + dx
        new_y == agent.y + dy
    IN  IF new_x >= 0 /\ new_x < width /\ new_y >= 0 /\ new_y < height
        THEN [x |-> new_x, y |-> new_y]
        ELSE agent

\* Agent.move(width, height) for the drawn (dx, dy): a coordinate that would
\* leave the grid stays as it is.
move(agent, dx, dy, width, height) ==
    LET new_x == agent.x + dx
        new_y == agent.y + dy
    IN  [x |-> IF new_x >= 0 /\ new_x < width THEN new_x ELSE agent.x,
         y |-> IF new_y >= 0 /\ new_y < height THEN new_y ELSE agent.y]

\* Mutant: the agents count as met when they are in the same column.
same_cell_column(ags) == ags[1].x = ags[2].x

\* self.agents[0].x == self.agents[1].x and self.agents[0].y == self.agents[1].y
same_cell(ags) == ags[1].x = ags[2].x /\ ags[1].y = ags[2].y

\* Model(grid_space_xy, grid_space_xy): two agents at random cells; iter is the
\* i of the loop over range(num_iter).
InitGrid ==
    /\ NoModel
    /\ unit = NoUnit
    /\ \E a0, a1 \in [x : 0..(grid_space_xy - 1), y : 0..(grid_space_xy - 1)] :
          grid = [width |-> grid_space_xy, height |-> grid_space_xy, hit_count |-> 0,
                  agents |-> <<a0, a1>>, iter |-> 0]

\* One iteration of the loop: Model.update moves every agent, then counts a
\* hit if the two are in the same cell.
update ==
    /\ grid.width > 0
    /\ grid.iter < num_iter
    /\ \E d \in [1..2 -> Deltas \X Deltas] :
          LET moved == [i \in 1..2 |->
                           move(grid.agents[i], d[i][1], d[i][2], grid.width, grid.height)]
          IN  grid' = [grid EXCEPT !.agents = moved,
                                   !.hit_count = IF same_cell(moved) THEN @ + 1 ELSE @,
                                   !.iter = @ + 1]
    /\ UNCHANGED <<prob, agents, schedule, step_number, results_df, pc, buffer,
                   activations, use_ai, decision, tab_borrowers, unit>>

NextGrid == update

SpecGrid == InitGrid /\ [][NextGrid]_vars

\* C27: one Agent.move displaces the agent by at most 2 cells, and never
\* changes both its x and its y coordinate.
C27_MoveAxisAligned ==
    [][\A i \in 1..2 :
          /\ Abs(grid'.agents[i].x - grid.agents[i].x) <= 2
          /\ Abs(grid'.agents[i].y - grid.agents[i].y) <= 2
          /\ (grid'.agents[i].x = grid.agents[i].x \/ grid'.agents[i].y = grid.agents[i].y)
      ]_vars

\* C28: hit_count never decreases, and each Model.update raises it by exactly
\* 1 if the two agents are in the same cell after both have moved, and leaves
\* it as it is otherwise.
C28_HitCount ==
    [][/\ grid'.hit_count >= grid.hit_count
       /\ grid'.iter = grid.iter + 1
       /\ grid'.hit_count - grid.hit_count =
             IF /\ grid'.agents[1].x = grid'.agents[2].x
                /\ grid'.agents[1].y = grid'.agents[2].y
             THEN 1 ELSE 0
      ]_vars

\* After three updates the counter is at 2 and the agents are apart, in the
\* same column: two updates counted a hit and one did not.
C28_Witness ==
    /\ grid.width > 0
    /\ grid.iter = 3
    /\ grid.hit_count = 2
    /\ grid.agents[1].x = grid.agents[2].x
    /\ grid.agents[1].y # grid.agents[2].y

\* The payment of the original (principal, monthly_rate, term_months) of b.
MonthlyPayment(b) ==
    MonthlyLoan(agents[b].loan_amount, agents[b].monthly_rate, agents[b].num_months)

\* The last decision borrower b took was pay.
LastPaid(b) == activations[b] # <<>> /\ activations[b][Len(activations[b])].pay

\* C29: for every scheduled borrower, balance = original monthly payment x
\* (months_remaining + consecutive_misses); so after a run of exactly
\* term_months steps a borrower that did not default owes 0, 1 or 2 monthly
\* payments, and owes 0 exactly when its last decision was pay.
C29_BalanceIdentity ==
    \A b \in ScheduledSet :
        /\ agents[b].balance = MonthlyPayment(b) * (agents[b].time_to_repay + Misses(b))
        /\ (RunComplete /\ agents[b].num_months = NumMonths) =>
              /\ agents[b].time_to_repay = 0
              /\ agents[b].balance \in {k * MonthlyPayment(b) : k \in 0..2}
              /\ agents[b].balance = 0 <=> LastPaid(b)

\* The run of term_months steps is complete: one borrower, whose last two
\* decisions were misses, owes 2 monthly payments, and another one, which
\* made up for a miss with its last payment, owes 0.
C29_Witness ==
    /\ RunComplete
    /\ \E b, c \in ScheduledSet :
          /\ agents[b].balance = 2 * MonthlyPayment(b)
          /\ Misses(b) = 2
          /\ agents[c].balance = 0
          /\ ~PaidIn(c, NumMonths - 1) /\ PaidIn(c, NumMonths)

\* C30: every borrower that can be constructed has monthly_rate > 0 (its
\* credit_score is in [50, 100], so its interest_rate is at least 0.04), the
\* denominator (1 + r)^n - 1 is above 0 for every term n >= 1, and no
\* construction runs into the division by a denominator of 0.
C30_RatePositive ==
    /\ (unit.op = "calculate_interest_rate" /\ unit.done) => unit.result >= 400
    /\ (unit.op = "Borrower" /\ unit.done) =>
          /\ unit.error = "none"
          /\ unit.result.credit_score \in 50..100
          /\ unit.result.interest_rate >= 400
          /\ unit.result.monthly_rate > 0
          /\ \A n \in 1..NumMonths : denominator(unit.result.monthly_rate, n) > 0

\* A borrower was constructed with the highest credit score: it carries the
\* lowest rate, 0.04, and its monthly payment was computed.
C30_Witness ==
    /\ unit.op = "Borrower"
    /\ unit.done
    /\ unit.error = "none"
    /\ unit.result.credit_score = 100
    /\ unit.result.monthly_rate = 400
    /\ unit.result.monthly_loan > 0
    /\ denominator(unit.result.monthly_rate, unit.result.num_months) > 0

\* C31: with miss_probability = 0 and the oracle disabled no borrower ever
\* misses or defaults; after M = term_months run_steps all num_borrowers
\* borrowers are still scheduled, each has M + 1 rows, and the balance of each
\* one's last row is 0.
C31_NoMissAtProbZero ==
    (prob = 0 /\ ~use_ai) =>
        /\ \A b \in Ids :
              /\ \A i \in DOMAIN activations[b] : activations[b][i].pay
              /\ Misses(b) = 0
              /\ agents[b].removed = 0
              /\ b \in ScheduledSet
        /\ RunComplete =>
              /\ Len(schedule) = NumBorrowers
              /\ \A b \in Ids :
                    /\ agents[b].num_months = NumMonths
                    /\ Len(activations[b]) = NumMonths
                    /\ Len(RowsOf(b)) = NumMonths + 1
                    /\ last_balance(results_df, b) = 0
                    /\ BalanceAt(b, NumMonths) = 0

\* The run with miss_probability = 0 is complete: every borrower paid in each
\* of the M steps, and the balance of the row before the last one was above 0.
C31_Witness ==
    /\ prob = 0
    /\ ~use_ai
    /\ RunComplete
    /\ \A b \in Ids :
          /\ Len(activations[b]) = NumMonths
          /\ PaidIn(b, NumMonths)
          /\ BalanceAt(b, NumMonths - 1) > 0
          /\ BalanceAt(b, NumMonths) = 0

\* The rows of borrower b are exactly those of steps 0, 1 and 2, all with the
\* balance of the step-0 row.
RowsOfThreeSteps(b) ==
    /\ Len(RowsOf(b)) = 3
    /\ \A k \in 1..3 :
          /\ RowsOf(b)[k].Step = k - 1
          /\ RowsOf(b)[k].Balance = Row0(b).Balance

\* C32: with miss_probability = 1 and the oracle disabled every activation is
\* a miss and every borrower defaults in run_step 3; from then on the log holds
\* for each borrower exactly the rows of steps 0, 1 and 2, all with the step-0
\* balance, no later run_step appends a row, and run_step can still be called
\* and raises step_number.
C32_AllDefaultAtProbOne ==
    (prob = 100 /\ ~use_ai) =>
        /\ \A b \in Ids :
              /\ \A i \in DOMAIN activations[b] :
                    /\ ~activations[b][i].pay
                    /\ activations[b][i].step = i
              /\ Len(activations[b]) <= 3
              /\ agents[b].removed = 1 <=> Len(activations[b]) = 3
              /\ agents[b].removed = 1 => DefaultStep(b) = 3
              /\ (step_number < 3 /\ pc = "idle") =>
                    /\ b \in ScheduledSet
                    /\ Len(RowsOf(b)) = step_number + 1
        /\ (step_number > 3 \/ (step_number = 3 /\ pc = "idle")) =>
              /\ schedule = <<>>
              /\ Len(results_df) = 3 * NumBorrowers
              /\ \A b \in Ids : agents[b].removed = 1 /\ RowsOfThreeSteps(b)
        /\ (pc = "idle" /\ step_number \in 3..(NumMonths - 1)) => ENABLED StepBegin

\* A run_step after the third has completed with miss_probability = 1: the
\* schedule is empty, step_number has passed 3 and the log still holds three
\* rows per borrower.
C32_Witness ==
    /\ prob = 100
    /\ ~use_ai
    /\ pc = "idle"
    /\ step_number > 3
    /\ schedule = <<>>
    /\ \A b \in Ids : DefaultStep(b) = 3 /\ RowsOfThreeSteps(b)

\* ------------------------------------------------- single calls of Agent.move

\* Agent(x, y).move(width, height) for an agent inside a grid of the size the
\* Model is built with.
MoveCalls ==
    [op : {"move"}, done : {FALSE},
     agent : [x : 0..(grid_space_xy - 1), y : 0..(grid_space_xy - 1)],
     width : {grid_space_xy}, height : {grid_space_xy}]

\* One call of Agent.move: the drawn dx and dy are kept with the agent after
\* the call.
CallMove ==
    /\ unit.op = "move"
    /\ ~unit.done
    /\ \E dx, dy \in Deltas :
          unit' = [op |-> "move", done |-> TRUE, agent |-> unit.agent,
                   width |-> unit.width, height |-> unit.height,
                   dx |-> dx, dy |-> dy,
                   result |-> move(unit.agent, dx, dy, unit.width, unit.height)]
    /\ UNCHANGED <<prob, agents, schedule, step_number, results_df, pc, buffer,
                   activations, use_ai, decision, tab_borrowers, grid>>

InitGridMove ==
    \/ InitGrid
    \/ /\ NoModel
       /\ grid = NoGrid
       /\ unit \in MoveCalls

NextGridMove == update \/ CallMove

SpecGridMove == InitGridMove /\ [][NextGridMove]_vars

\* C33: after the construction of the grid Model and after any number of
\* Model.update calls both agents satisfy 0 <= x < width and 0 <= y < height;
\* in one Agent.move a coordinate whose new value would leave the grid is left
\* unchanged and one whose new value is inside the grid takes it, whatever
\* happens on the other axis.
C33_AgentsStayInGrid ==
    /\ grid.width > 0 =>
          \A i \in 1..2 :
              /\ grid.agents[i].x >= 0 /\ grid.agents[i].x < grid.width
              /\ grid.agents[i].y >= 0 /\ grid.agents[i].y < grid.height
    /\ (unit.op = "move" /\ unit.done) =>
          LET new_x == unit.agent.x + unit.dx
              new_y == unit.agent.y + unit.dy
              x_leaves == new_x < 0 \/ new_x >= unit.width
              y_leaves == new_y < 0 \/ new_y >= unit.height
          IN  /\ unit.result.x >= 0 /\ unit.result.x < unit.width
              /\ unit.result.y >= 0 /\ unit.result.y < unit.height
              /\ x_leaves => unit.result.x = unit.agent.x
              /\ ~x_leaves => unit.result.x = new_x
              /\ y_leaves => unit.result.y = unit.agent.y
              /\ ~y_leaves => unit.result.y = new_y

\* An agent in the last column drew a step to the right and a step along y
\* that stays inside the grid: it kept its x and moved in y.
C33_Witness ==
    /\ unit.op = "move"
    /\ unit.done
    /\ unit.agent.x = unit.width - 1
    /\ unit.dx > 0
    /\ unit.dy # 0
    /\ unit.agent.y + unit.dy >= 0 /\ unit.agent.y + unit.dy < unit.height
    /\ unit.result.x = unit.agent.x
    /\ unit.result.y = unit.agent.y + unit.dy

====
